---- MODULE Spec2Model ----
(***************************************************************************)
(* Model of the query resolution pipeline of RAG_analysis:                 *)
(*   - RAGSystemLangChain.generate_sql_query / execute_sql_query /         *)
(*     _extract_candidate_bindings / generate_final_summary / query        *)
(*     (src/test_final_v2.py)                                              *)
(*   - get_rag_system, the lazily initialised global (views.py)            *)
(*                                                                         *)
(* Texts are modelled as sequences of tokens.  An error message is a       *)
(* sequence of string tokens; the token CB stands for the literal          *)
(* "Candidate bindings:", NL for a line break, and the tokens of           *)
(* QuotedNames stand for a column name written between double quotes.      *)
(* A prompt is the record of the arguments passed to the template's        *)
(* format() call.                                                          *)
(***************************************************************************)
EXTENDS Integers, Sequences, FiniteSets, TLC

\* ------------------------------------------------------------------ bounds
MaxFeatures == 2
MaxPolls == 2
MaxRows == 1
MaxMsgLen == 4
MaxQueryLen == 3
MaxAnswerLen == 2
MaxAttrs == 2
MaxCols == 3
MaxRecords == 2
MaxRuns == 2
MaxSelect == 2
MaxDocs == 3
NumRequests == 3

\* --------------------------------------------------------------- constants
\* a default budget of one attempt more
max_attempts_oneMore == 4

max_attempts == 3
NaN == 999

Threads == {1, 2}
Reqs == 1..NumRequests

None == "None"
Unset == <<"<unset>">>
UnknownError == <<"unknown error">>

CB == "Candidate bindings:"
NL == "\n"
QuotedNames == {"ColA", "ColB", "ColC"}

\* ------------------------------------------------------ sequence helpers
RECURSIVE SeqToSet(_)
SeqToSet(s) == IF s = <<>> THEN {} ELSE {Head(s)} \cup SeqToSet(Tail(s))

RECURSIVE IndexOf(_, _, _)
IndexOf(s, x, i) ==
    IF i > Len(s) THEN 0
    ELSE IF s[i] = x THEN i ELSE IndexOf(s, x, i + 1)

\* \s* after the colon also runs over line ends
RECURSIVE SkipSpace(_)
SkipSpace(s) ==
    IF s # <<>> /\ Head(s) = NL THEN SkipSpace(Tail(s)) ELSE s

\* ([^\n]+): the group ends at the line end
RECURSIVE TakeLine(_)
TakeLine(s) ==
    IF s = <<>> \/ Head(s) = NL THEN <<>>
    ELSE <<Head(s)>> \o TakeLine(Tail(s))

RECURSIVE QuotedOf(_)
QuotedOf(s) ==
    IF s = <<>> THEN <<>>
    ELSE IF Head(s) \in QuotedNames THEN <<Head(s)>> \o QuotedOf(Tail(s))
    ELSE QuotedOf(Tail(s))

\* the group runs to the end of the text
_extract_candidate_bindings_wholeText(error_msg) ==
    LET i == IndexOf(error_msg, CB, 1)
    IN  IF i = 0 THEN <<>>
        ELSE QuotedOf(SkipSpace(SubSeq(error_msg, i + 1, Len(error_msg))))

\* re.search(r'Candidate bindings:\s*([^\n]+)') then re.findall(r'"([^"]+)"')
_extract_candidate_bindings(error_msg) ==
    LET i == IndexOf(error_msg, CB, 1)
    IN  IF i = 0 THEN <<>>
        ELSE QuotedOf(TakeLine(SkipSpace(SubSeq(error_msg, i + 1, Len(error_msg)))))

\* ------------------------------------------------- the execution engine
\* The Attribute Store is immutable, so executing a query text is a
\* function of the text: either a table (sequence of rows) or an error.
ErrBinderAB == <<"Binder Error: column not found", NL, CB, "ColA", "ColB">>
ErrBinderC == <<"Binder Error: bad reference", NL, CB, "ColC", NL, "ColA">>
ErrParser == <<"Parser Error: syntax error">>

Row(lon, lat) == [lon |-> lon, lat |-> lat, matched_feature |-> None]

Queries == {"q_coords", "q_nocoords", "q_empty", "q_errAB", "q_errC", "q_errParser"}

\* self.df.columns, the names get_columns_info shows to the LLM
Schema == {"lon", "lat"} \cup QuotedNames

\* the column names each query text refers to
References(q) ==
    CASE q = "q_coords"    -> {"lon", "lat"}
      [] q = "q_nocoords"  -> {"LAT"}
      [] q = "q_empty"     -> {"ColA"}
      [] q = "q_errAB"     -> {"ColX"}
      [] q = "q_errC"      -> {"ColY", "lon"}
      [] OTHER             -> {}

Lower(name) ==
    CASE name = "LAT"  -> "lat"
      [] name = "ColA" -> "cola"
      [] name = "ColB" -> "colb"
      [] name = "ColC" -> "colc"
      [] name = "ColX" -> "colx"
      [] name = "ColY" -> "coly"
      [] OTHER         -> name

\* the engine compares identifiers without regard to case
Binds(name) == \E c \in Schema : Lower(c) = Lower(name)

Rows(q) ==
    CASE q = "q_coords"    -> <<Row(50, 42), Row(NaN, 41)>>
      [] q = "q_nocoords"  -> <<Row(NaN, NaN)>>
      [] OTHER             -> <<>>

BinderError(q) == IF q = "q_errC" THEN ErrBinderC ELSE ErrBinderAB

DuckDB(q) ==
    IF q \notin Queries \ {"q_errParser"}
    THEN [ok |-> FALSE, rows |-> <<>>, err |-> ErrParser]
    ELSE IF \E name \in References(q) : ~Binds(name)
    THEN [ok |-> FALSE, rows |-> <<>>, err |-> BinderError(q)]
    ELSE [ok |-> TRUE, rows |-> Rows(q), err |-> <<>>]

\* ---------------------------------------------------------------- state
VARIABLES
    last_sql_error,             \* self.last_sql_error (Unset: no such attribute)
    last_candidate_bindings,    \* self.last_candidate_bindings (<<>>: absent)
    pc,                         \* position of each pipeline run
    matched_features,           \* query(): verified features of the run
    fi,                         \* query(): index of the feature being processed
    attempt,                    \* generate_sql_query locals
    sql_query,
    error_history,
    all_candidate_bindings,
    prompt,
    result,                     \* value returned by generate_sql_query
    all_results,                \* query(): per-feature result tables
    combined_results,
    final_answer,
    hist,                       \* history: the attempts of the current call
    outcomes,                   \* history: what each feature's call returned
    llm_calls,                  \* history: LLM calls of the current call
    test_execs,                 \* history: test executions of the current call
    rag_system,                 \* views._rag_system (0: None)
    ipc,                        \* position of each request in get_rag_system
    got,                        \* instance get_rag_system returned to a request
    constructed,                \* number of RAGSystemLangChain constructions
    description,                \* query(): feature_description of the run
    search_results,             \* query(): documents the index returned
    vi,                         \* query(): number of documents looked at
    verify_log,                 \* history: the verification calls of the run
    summary_calls,              \* history: summarization calls of the run
    arg,                        \* argument of the function under check
    ret,                        \* value it returned
    fpc,                        \* "none", "ready" or "returned"
    wview,                      \* the view that received the request
    wpc,                        \* position of the request handler
    wk,                         \* position of the run_query thread
    storage,                    \* progress_storage of the request
    wloc,                       \* locals of _rag_query_with_progress
    werror,                     \* error of QueryStreamView's run_query
    responses,                  \* bodies sent to the client, in order
    progress_log,               \* history: the progress updates made
    cleanup                     \* cleanup threads that have not run yet

sharedVars == <<last_sql_error, last_candidate_bindings>>
callVars == <<attempt, sql_query, error_history, all_candidate_bindings, prompt,
              result, hist, llm_calls, test_execs>>
runVars == <<matched_features, fi, all_results, combined_results, final_answer,
             outcomes>>
initVars == <<rag_system, ipc, got, constructed>>
resolveVars == <<description, search_results, vi, verify_log>>
fnVars == <<arg, ret, fpc>>
webVars == <<wview, wpc, wk, storage, wloc, werror, responses, progress_log,
             cleanup>>
otherVars == <<resolveVars, fnVars, webVars>>
vars == <<sharedVars, pc, callVars, runVars, initVars, summary_calls, otherVars>>

FeatureNames == <<"feat1", "feat2", "feat3", "feat4">>

NoPrompt ==
    [kind |-> "none", feature_name |-> None, sql_query |-> "",
     error_message |-> <<>>, error_history |-> <<>>, candidate_bindings |-> {}]

InitInstance ==
    /\ last_sql_error = Unset
    /\ last_candidate_bindings = <<>>
    /\ pc = [t \in Threads |-> "idle"]
    /\ matched_features = [t \in Threads |-> <<>>]
    /\ fi = [t \in Threads |-> 0]
    /\ attempt = [t \in Threads |-> 0]
    /\ sql_query = [t \in Threads |-> None]
    /\ error_history = [t \in Threads |-> <<>>]
    /\ all_candidate_bindings = [t \in Threads |-> <<>>]
    /\ prompt = [t \in Threads |-> NoPrompt]
    /\ result = [t \in Threads |-> None]
    /\ all_results = [t \in Threads |-> <<>>]
    /\ combined_results = [t \in Threads |-> <<>>]
    /\ final_answer = [t \in Threads |-> <<>>]
    /\ hist = [t \in Threads |-> <<>>]
    /\ outcomes = [t \in Threads |-> <<>>]
    /\ llm_calls = [t \in Threads |-> 0]
    /\ test_execs = [t \in Threads |-> 0]
    /\ rag_system = 0
    /\ ipc = [r \in Reqs |-> "start"]
    /\ got = [r \in Reqs |-> 0]
    /\ constructed = 0
    /\ description = [t \in Threads |-> None]
    /\ search_results = [t \in Threads |-> <<>>]
    /\ vi = [t \in Threads |-> 0]
    /\ verify_log = [t \in Threads |-> <<>>]
    /\ summary_calls = [t \in Threads |-> 0]

\* no function is under check
InitNoCall == arg = None /\ ret = None /\ fpc = "none"

NoStorage == [kind |-> "none"]
NoLocals == [n |-> 0, idx |-> 0, m |-> 0, fidx |-> 0]

\* no request has been received
InitWeb ==
    /\ wview = None
    /\ wpc = "idle"
    /\ wk = "none"
    /\ storage = NoStorage
    /\ wloc = NoLocals
    /\ werror = <<>>
    /\ responses = <<>>
    /\ progress_log = <<>>
    /\ cleanup = 0

Init == InitInstance /\ InitNoCall /\ InitWeb

\* ------------------------------------------------ generate_sql_query
\* str(self.last_sql_error) if hasattr(self, 'last_sql_error') else "..."
ErrorMsgOf(err) == IF err = Unset THEN UnknownError ELSE err

AttemptEntry(n, msg) == [k |-> "attempt", n |-> n, msg |-> msg, cols |-> <<>>]
ColumnsEntry(cols) == [k |-> "columns", n |-> 0, msg |-> <<>>, cols |-> cols]

\* the repair prompt of attempt 2 is built without the stored error
BuildPrompt_noError(n, feature, query, lastErr, lastCb, history, allCb) ==
    IF n = 1 THEN
        [kind |-> "SQL_GENERATION_PROMPT", feature_name |-> feature,
         sql_query |-> "", error_message |-> <<>>, error_history |-> <<>>,
         candidate_bindings |-> {}]
    ELSE IF n = 2 THEN
        [kind |-> "SQL_FIX_PROMPT", feature_name |-> feature,
         sql_query |-> IF query = None THEN "" ELSE query,
         error_message |-> UnknownError,
         error_history |-> <<>>,
         candidate_bindings |-> SeqToSet(lastCb)]
    ELSE
        [kind |-> "SQL_FIX_PROMPT_V2", feature_name |-> feature,
         sql_query |-> IF query = None THEN "" ELSE query,
         error_message |-> ErrorMsgOf(lastErr),
         error_history |-> history,
         candidate_bindings |-> IF allCb # <<>> THEN SeqToSet(allCb)
                                ELSE SeqToSet(lastCb)]

\* lines 465-508: the arguments of the prompt of attempt n
BuildPrompt(n, feature, query, lastErr, lastCb, history, allCb) ==
    IF n = 1 THEN
        [kind |-> "SQL_GENERATION_PROMPT", feature_name |-> feature,
         sql_query |-> "", error_message |-> <<>>, error_history |-> <<>>,
         candidate_bindings |-> {}]
    ELSE IF n = 2 THEN
        [kind |-> "SQL_FIX_PROMPT", feature_name |-> feature,
         sql_query |-> IF query = None THEN "" ELSE query,
         error_message |-> ErrorMsgOf(lastErr),
         error_history |-> <<>>,
         candidate_bindings |-> SeqToSet(lastCb)]
    ELSE
        [kind |-> "SQL_FIX_PROMPT_V2", feature_name |-> feature,
         sql_query |-> IF query = None THEN "" ELSE query,
         error_message |-> ErrorMsgOf(lastErr),
         error_history |-> history,
         candidate_bindings |-> IF allCb # <<>> THEN SeqToSet(allCb)
                                ELSE SeqToSet(lastCb)]

\* line 460: while attempt < max_attempts
LoopContinues(n) == n < max_attempts

\* a successful execution that found no rows is treated as a failure
TestPassed_needsRows(test_result) == test_result.ok /\ test_result.rows # <<>>

\* line 534: if test_result is not None
TestPassed(test_result) == test_result.ok

\* the last generated query is handed back although it failed
ExhaustedResult_lastQuery(query) == query

\* lines 549-551, 573-574: the budget is exhausted
ExhaustedResult(query) == None

AttemptRec(t, q, err, ok) ==
    [n |-> attempt[t], prompt |-> prompt[t], query |-> q, err |-> err, ok |-> ok]

\* query() line 845: the call of generate_sql_query, lines 454-458
BeginGenerate(t) ==
    /\ pc[t] = "LOOP"
    /\ fi[t] < Len(matched_features[t])
    /\ fi' = [fi EXCEPT ![t] = @ + 1]
    /\ attempt' = [attempt EXCEPT ![t] = 0]
    /\ sql_query' = [sql_query EXCEPT ![t] = None]
    /\ error_history' = [error_history EXCEPT ![t] = <<>>]
    /\ all_candidate_bindings' = [all_candidate_bindings EXCEPT ![t] = <<>>]
    /\ prompt' = [prompt EXCEPT ![t] = NoPrompt]
    /\ hist' = [hist EXCEPT ![t] = <<>>]
    /\ llm_calls' = [llm_calls EXCEPT ![t] = 0]
    /\ test_execs' = [test_execs EXCEPT ![t] = 0]
    /\ pc' = [pc EXCEPT ![t] = "GENERATING"]
    /\ UNCHANGED <<sharedVars, result, matched_features, all_results,
                   combined_results, final_answer, outcomes, initVars, summary_calls, otherVars>>

\* lines 460-508: loop head and prompt construction (line 577 on loop exit)
Generate(t) ==
    /\ pc[t] = "GENERATING"
    /\ IF LoopContinues(attempt[t])
       THEN /\ attempt' = [attempt EXCEPT ![t] = @ + 1]
            /\ prompt' = [prompt EXCEPT ![t] =
                  BuildPrompt(attempt[t] + 1, matched_features[t][fi[t]],
                              sql_query[t], last_sql_error,
                              last_candidate_bindings, error_history[t],
                              all_candidate_bindings[t])]
            /\ pc' = [pc EXCEPT ![t] = "LLM"]
            /\ UNCHANGED result
       ELSE /\ result' = [result EXCEPT ![t] = sql_query[t]]
            /\ pc' = [pc EXCEPT ![t] = "RETURNED"]
            /\ UNCHANGED <<attempt, prompt>>
    /\ UNCHANGED <<sharedVars, sql_query, error_history, all_candidate_bindings,
                   hist, llm_calls, test_execs, runVars, initVars, summary_calls, otherVars>>

\* lines 510-528: the LLM answers with a query text
LLMReturn(t, q) ==
    /\ pc[t] = "LLM"
    /\ sql_query' = [sql_query EXCEPT ![t] = q]
    /\ llm_calls' = [llm_calls EXCEPT ![t] = @ + 1]
    /\ pc' = [pc EXCEPT ![t] = "EXECUTING"]
    /\ UNCHANGED <<sharedVars, attempt, error_history, all_candidate_bindings,
                   prompt, result, hist, test_execs, runVars, initVars, summary_calls, otherVars>>

\* lines 571-575: the LLM call raises
LLMFail(t) ==
    /\ pc[t] = "LLM"
    /\ llm_calls' = [llm_calls EXCEPT ![t] = @ + 1]
    /\ hist' = [hist EXCEPT ![t] = Append(@, AttemptRec(t, None, <<>>, FALSE))]
    /\ IF attempt[t] >= max_attempts
       THEN /\ result' = [result EXCEPT ![t] = ExhaustedResult(sql_query[t])]
            /\ pc' = [pc EXCEPT ![t] = "RETURNED"]
       ELSE /\ pc' = [pc EXCEPT ![t] = "GENERATING"]
            /\ UNCHANGED result
    /\ UNCHANGED <<sharedVars, attempt, sql_query, error_history,
                   all_candidate_bindings, prompt, test_execs, runVars, initVars, summary_calls, otherVars>>

\* line 532 with execute_sql_query(test_mode=True), lines 615-641, and the
\* success return of lines 534-537
TestExecute(t) ==
    /\ pc[t] = "EXECUTING"
    /\ test_execs' = [test_execs EXCEPT ![t] = @ + 1]
    /\ hist' = [hist EXCEPT ![t] =
           Append(@, AttemptRec(t, sql_query[t], DuckDB(sql_query[t]).err,
                                DuckDB(sql_query[t]).ok))]
    /\ LET r == DuckDB(sql_query[t])
           cb == _extract_candidate_bindings(r.err)
       IN  IF TestPassed(r)
           THEN /\ result' = [result EXCEPT ![t] = sql_query[t]]
                /\ pc' = [pc EXCEPT ![t] = "RETURNED"]
                /\ UNCHANGED sharedVars
           ELSE /\ last_sql_error' = r.err
                /\ last_candidate_bindings' =
                       IF cb # <<>> THEN cb ELSE last_candidate_bindings
                /\ pc' = [pc EXCEPT ![t] = "TEST_FAILED"]
                /\ UNCHANGED result
    /\ UNCHANGED <<attempt, sql_query, error_history, all_candidate_bindings,
                   prompt, llm_calls, runVars, initVars, summary_calls, otherVars>>

\* lines 538-551: the test execution returned None
HandleTestFailure(t) ==
    /\ pc[t] = "TEST_FAILED"
    /\ IF attempt[t] < max_attempts
       THEN /\ error_history' = [error_history EXCEPT ![t] =
                  LET h == Append(@, AttemptEntry(attempt[t], ErrorMsgOf(last_sql_error)))
                  IN  IF last_candidate_bindings # <<>>
                      THEN Append(h, ColumnsEntry(last_candidate_bindings))
                      ELSE h]
            /\ all_candidate_bindings' = [all_candidate_bindings EXCEPT ![t] =
                  @ \o last_candidate_bindings]
            /\ pc' = [pc EXCEPT ![t] = "GENERATING"]
            /\ UNCHANGED result
       ELSE /\ result' = [result EXCEPT ![t] = ExhaustedResult(sql_query[t])]
            /\ pc' = [pc EXCEPT ![t] = "RETURNED"]
            /\ UNCHANGED <<error_history, all_candidate_bindings>>
    /\ UNCHANGED <<sharedVars, attempt, sql_query, prompt, hist, llm_calls,
                   test_execs, runVars, initVars, summary_calls, otherVars>>

\* ---------------------------------------------------------- query()
RECURSIVE Concat(_)
Concat(tables) ==
    IF tables = <<>> THEN <<>> ELSE Head(tables) \o Concat(Tail(tables))

\* line 853: result_df['matched_feature'] = feature_name
Tag(rows, feature) ==
    [i \in 1..Len(rows) |-> [rows[i] EXCEPT !.matched_feature = feature]]

\* execute_sql_query(sql_query) with test_mode=False, lines 615-643
execute_sql_query(q) ==
    LET r == DuckDB(q) IN IF r.ok THEN r.rows ELSE <<>>

\* a feature without a query discards what the earlier features found
CollectResult_dropsEarlier(results, q, feature) ==
    IF q = None THEN <<>>
    ELSE IF execute_sql_query(q) # <<>>
         THEN Append(results, Tag(execute_sql_query(q), feature))
         ELSE results

\* lines 847-855: what one feature adds to all_results
CollectResult(results, q, feature) ==
    IF q # None /\ execute_sql_query(q) # <<>>
    THEN Append(results, Tag(execute_sql_query(q), feature))
    ELSE results

\* lines 786-838: the verified features of the run; all_results = []
StartQuery(t, n) ==
    /\ pc[t] = "idle"
    /\ matched_features' = [matched_features EXCEPT ![t] = SubSeq(FeatureNames, 1, n)]
    /\ fi' = [fi EXCEPT ![t] = 0]
    /\ all_results' = [all_results EXCEPT ![t] = <<>>]
    /\ outcomes' = [outcomes EXCEPT ![t] = <<>>]
    /\ pc' = [pc EXCEPT ![t] = "LOOP"]
    /\ UNCHANGED <<sharedVars, callVars, combined_results, final_answer, initVars, summary_calls, otherVars>>

\* lines 847-855: generate_sql_query has returned
Collect(t) ==
    /\ pc[t] = "RETURNED"
    /\ all_results' = [all_results EXCEPT ![t] =
           CollectResult(@, result[t], matched_features[t][fi[t]])]
    /\ outcomes' = [outcomes EXCEPT ![t] =
           Append(@, [feature |-> matched_features[t][fi[t]], query |-> result[t]])]
    /\ pc' = [pc EXCEPT ![t] = "LOOP"]
    /\ UNCHANGED <<sharedVars, callVars, matched_features, fi, combined_results,
                   final_answer, initVars, summary_calls, otherVars>>

\* lines 857-863: pd.concat(all_results, ignore_index=True)
Combine(t) ==
    /\ pc[t] = "LOOP"
    /\ fi[t] = Len(matched_features[t])
    /\ combined_results' = [combined_results EXCEPT ![t] = Concat(all_results[t])]
    /\ pc' = [pc EXCEPT ![t] = "SUMMARY"]
    /\ UNCHANGED <<sharedVars, callVars, matched_features, fi, all_results,
                   final_answer, outcomes, initVars, summary_calls, otherVars>>

\* ------------------------------------------ generate_final_summary
\* A text is a sequence of tokens.  KW is a fragment whose lower-cased form
\* contains the coordinates keyword, PIN the pin marker, a "coord" token a
\* line giving the longitude and latitude of record rec.
Word(k) == [k |-> k, rec |-> 0, lon |-> 0, lat |-> 0]
KW == Word("kw")
PIN == Word("pin")
CoordLine(i, lon, lat) == [k |-> "coord", rec |-> i, lon |-> lon, lat |-> lat]

\* lines 684, 707: the row has a longitude and a latitude
HasLonLat(row) == row.lon # NaN /\ row.lat # NaN

\* lines 678-708
RECURSIVE CoordinatesFrom(_, _)
CoordinatesFrom(df, i) ==
    IF i > Len(df) THEN <<>>
    ELSE (IF HasLonLat(df[i]) THEN <<CoordLine(i, df[i].lon, df[i].lat)>> ELSE <<>>)
         \o CoordinatesFrom(df, i + 1)

coordinates_list(df) == CoordinatesFrom(df, 1)

\* lines 663-718
coordinates_section(df) ==
    IF df = <<>> THEN <<>>
    ELSE IF coordinates_list(df) # <<>>
         THEN <<KW>> \o coordinates_list(df)
         ELSE <<Word("warning"), KW>>

Mentions(text, tok) == \E i \in 1..Len(text) : text[i] = tok

\* lines 736-743: the LLM answered with summary
PostCheck(summary, df) ==
    IF coordinates_section(df) # <<>> /\ ~Mentions(summary, KW) /\ ~Mentions(summary, PIN)
    THEN summary \o <<PIN, KW>> \o coordinates_list(df)
    ELSE summary

\* lines 744-753: the LLM call raised
Fallback(df) ==
    IF df = <<>> THEN <<Word("no data")>>
    ELSE <<Word("found"), Word("data")>> \o coordinates_section(df)

\* the texts the LLM may answer with
SummaryTexts(df) ==
    { <<Word("text")>>, <<Word("text"), KW>>, <<PIN, Word("text")>>,
      <<Word("text")>> \o coordinates_section(df) }

SummaryLLM(t, text) ==
    /\ pc[t] = "SUMMARY"
    /\ final_answer' = [final_answer EXCEPT ![t] = PostCheck(text, combined_results[t])]
    /\ summary_calls' = [summary_calls EXCEPT ![t] = @ + 1]
    /\ pc' = [pc EXCEPT ![t] = "done"]
    /\ UNCHANGED <<sharedVars, callVars, matched_features, fi, all_results,
                   combined_results, outcomes, initVars, otherVars>>

SummaryFail(t) ==
    /\ pc[t] = "SUMMARY"
    /\ final_answer' = [final_answer EXCEPT ![t] = Fallback(combined_results[t])]
    /\ summary_calls' = [summary_calls EXCEPT ![t] = @ + 1]
    /\ pc' = [pc EXCEPT ![t] = "done"]
    /\ UNCHANGED <<sharedVars, callVars, matched_features, fi, all_results,
                   combined_results, outcomes, initVars, otherVars>>

\* --------------------------------------------------- get_rag_system
\* line 50: if _rag_system is None
GetCheck(r) ==
    /\ ipc[r] = "start"
    /\ ipc' = [ipc EXCEPT ![r] = IF rag_system = 0 THEN "construct" ELSE "return"]
    /\ UNCHANGED <<sharedVars, pc, callVars, runVars, rag_system, got, constructed,
                   summary_calls, otherVars>>

\* lines 51-78: _rag_system = RAGSystemLangChain(...)
GetConstruct(r) ==
    /\ ipc[r] = "construct"
    /\ constructed' = constructed + 1
    /\ rag_system' = constructed + 1
    /\ ipc' = [ipc EXCEPT ![r] = "return"]
    /\ UNCHANGED <<sharedVars, pc, callVars, runVars, got, summary_calls, otherVars>>

\* line 79: return _rag_system
GetReturn(r) ==
    /\ ipc[r] = "return"
    /\ got' = [got EXCEPT ![r] = rag_system]
    /\ ipc' = [ipc EXCEPT ![r] = "done"]
    /\ UNCHANGED <<sharedVars, pc, callVars, runVars, rag_system, constructed,
                   summary_calls, otherVars>>

\* ------------------------------------- query(): feature resolution
\* A document of the description index; feature_name is the name that
\* lines 793-808 extract from it ("" when they find none).
Doc(name) == [feature_name |-> name]
IndexDocs == <<Doc("feat1"), Doc(""), Doc("feat2"), Doc("feat3"), Doc("feat4")>>

\* the search returns at most top_k documents
MaxCandidates == MaxFeatures + 1

UserQuery == "user_query"
Description == "description"

NoRelevantFeatures == <<Word("no relevant features in the base")>>
NoMatchingFeatures == <<Word("no features matching the query")>>

\* Upper-cased answers of the verification LLM, as sequences of words.
\* "DA" is the Russian yes, "NET" the Russian no and "DANNYJ" the Russian
\* word for "this", whose first two letters spell the Russian yes.
VerifyAnswers ==
    { <<"DA">>, <<"YES">>, <<"NET">>, <<"NO">>, <<"NET", "DANNYJ", "PRIZNAK">>,
      <<"VOZMOZHNO">> }

\* the word has the Russian yes or "YES" as a substring
HasYesSubstring(word) == word \in {"DA", "YES", "DANNYJ"}

\* line 412: if "ДА" in answer or "YES" in answer
IsAffirmative(answer) == \E i \in 1..Len(answer) : HasYesSubstring(answer[i])

\* the early return on an empty search result is missing
NoCandidates_never(results) == FALSE

\* line 782: if not search_results
NoCandidates(results) == results = <<>>

\* lines 776, 293-321: generate_feature_description
Describe(t, d) ==
    /\ pc[t] = "idle"
    /\ description' = [description EXCEPT ![t] = d]
    /\ pc' = [pc EXCEPT ![t] = "SEARCH"]
    /\ UNCHANGED <<sharedVars, callVars, runVars, initVars, summary_calls,
                   search_results, vi, verify_log, fnVars, webVars>>

\* lines 780-788: search_in_opensearch returned docs ([] when it failed)
Searched(t, docs) ==
    /\ pc[t] = "SEARCH"
    /\ search_results' = [search_results EXCEPT ![t] = docs]
    /\ vi' = [vi EXCEPT ![t] = 0]
    /\ verify_log' = [verify_log EXCEPT ![t] = <<>>]
    /\ matched_features' = [matched_features EXCEPT ![t] = <<>>]
    /\ all_results' = [all_results EXCEPT ![t] = <<>>]
    /\ outcomes' = [outcomes EXCEPT ![t] = <<>>]
    /\ fi' = [fi EXCEPT ![t] = 0]
    /\ IF NoCandidates(docs)
       THEN /\ combined_results' = [combined_results EXCEPT ![t] = <<>>]
            /\ final_answer' = [final_answer EXCEPT ![t] = NoRelevantFeatures]
            /\ pc' = [pc EXCEPT ![t] = "done"]
       ELSE /\ pc' = [pc EXCEPT ![t] = "VERIFY"]
            /\ UNCHANGED <<combined_results, final_answer>>
    /\ UNCHANGED <<sharedVars, callVars, initVars, summary_calls, description,
                   fnVars, webVars>>

\* lines 355-376: the index answers with its first k documents
SearchReturn(t, k) == Searched(t, SubSeq(IndexDocs, 1, k))

\* lines 377-379: the search raises
SearchFail(t) == Searched(t, <<>>)

VerifyRec(name, answer, accepted) ==
    [feature |-> name,
     clear |-> answer \in {<<"DA">>, <<"YES">>},
     accepted |-> accepted]

\* lines 790-828: one document of the loop; accepted is what
\* check_feature_match returned for it
Verified(t, answer, accepted) ==
    /\ pc[t] = "VERIFY"
    /\ vi[t] < Len(search_results[t])
    /\ search_results[t][vi[t] + 1].feature_name # ""
    /\ vi' = [vi EXCEPT ![t] = @ + 1]
    /\ verify_log' = [verify_log EXCEPT ![t] =
           Append(@, VerifyRec(search_results[t][vi[t] + 1].feature_name,
                               answer, accepted))]
    /\ matched_features' = [matched_features EXCEPT ![t] =
           IF accepted THEN Append(@, search_results[t][vi[t] + 1].feature_name)
           ELSE @]
    /\ UNCHANGED <<sharedVars, pc, callVars, fi, all_results, combined_results,
                   final_answer, outcomes, initVars, summary_calls, description,
                   search_results, fnVars, webVars>>

\* lines 408-417: the LLM answered
VerifyLLM(t, answer) == Verified(t, answer, IsAffirmative(answer))

\* lines 418-421: the LLM call raised
VerifyFail(t) == Verified(t, <<>>, FALSE)

\* lines 818-820: no feature name, the document is skipped
VerifySkip(t) ==
    /\ pc[t] = "VERIFY"
    /\ vi[t] < Len(search_results[t])
    /\ search_results[t][vi[t] + 1].feature_name = ""
    /\ vi' = [vi EXCEPT ![t] = @ + 1]
    /\ UNCHANGED <<sharedVars, pc, callVars, runVars, initVars, summary_calls,
                   description, search_results, verify_log, fnVars, webVars>>

\* lines 830-838: the verification loop is over
VerifyDone(t) ==
    /\ pc[t] = "VERIFY"
    /\ vi[t] = Len(search_results[t])
    /\ IF matched_features[t] = <<>>
       THEN /\ combined_results' = [combined_results EXCEPT ![t] = <<>>]
            /\ final_answer' = [final_answer EXCEPT ![t] = NoMatchingFeatures]
            /\ pc' = [pc EXCEPT ![t] = "done"]
       ELSE /\ pc' = [pc EXCEPT ![t] = "LOOP"]
            /\ UNCHANGED <<combined_results, final_answer>>
    /\ UNCHANGED <<sharedVars, callVars, matched_features, fi, all_results,
                   outcomes, initVars, summary_calls, otherVars>>

\* ------------------------------------------------ extract_coordinates
\* A cell of the lon or lat column.  Numbers stand for floats; NaN is the
\* float nan, Bad a piece of text that float() rejects.
\*   missing: None or NaN (pd.notna is false)
\*   number:  a float v
\*   text:    a string that does not start with '[' and reads as v
\*   array:   a string that starts with '['; literal tells whether
\*            ast.literal_eval accepts it, elems are its elements
Bad == 1000

Missing == [k |-> "missing", v |-> 0, literal |-> FALSE, elems |-> <<>>]
Number(v) == [k |-> "number", v |-> v, literal |-> FALSE, elems |-> <<>>]
Text(v) == [k |-> "text", v |-> v, literal |-> FALSE, elems |-> <<>>]
Array(literal, elems) == [k |-> "array", v |-> 0, literal |-> literal, elems |-> elems]

\* float(x): ok is false when it raises
Float(v) == [ok |-> v # Bad, v |-> v]
Skip == [ok |-> FALSE, v |-> 0]

\* lines 896-913
LonValue(cell) ==
    IF cell.k = "array"
    THEN IF cell.literal /\ cell.elems = <<>> THEN Skip
         ELSE IF cell.elems = <<>> THEN Skip
         ELSE Float(cell.elems[1])
    ELSE Float(cell.v)

\* lines 915-932
LatValue(cell) ==
    IF cell.k = "array"
    THEN IF cell.literal /\ cell.elems = <<>> THEN Skip
         ELSE IF cell.elems = <<>> THEN Skip
         ELSE Float(cell.elems[Len(cell.elems)])
    ELSE Float(cell.v)

\* the check of the latitude uses the bounds of the longitude
InRange_latAsLon(lon, lat) ==
    -180 <= lon /\ lon <= 180 /\ -180 <= lat /\ lat <= 180 /\ lon # NaN /\ lat # NaN

\* line 935; a comparison with nan is false
InRange(lon, lat) ==
    /\ lon # NaN /\ lat # NaN
    /\ -180 <= lon /\ lon <= 180
    /\ -90 <= lat /\ lat <= 90

\* lines 887-948: the coordinates one row contributes
RowCoordinates(row, i) ==
    IF row.lon.k = "missing" \/ row.lat.k = "missing" THEN <<>>
    ELSE IF ~LonValue(row.lon).ok THEN <<>>
    ELSE IF ~LatValue(row.lat).ok THEN <<>>
    ELSE IF InRange(LonValue(row.lon).v, LatValue(row.lat).v)
         THEN <<[lon |-> LonValue(row.lon).v, lat |-> LatValue(row.lat).v, row |-> i]>>
         ELSE <<>>

RECURSIVE CoordinatesOfRows(_, _)
CoordinatesOfRows(df, i) ==
    IF i > Len(df) THEN <<>>
    ELSE RowCoordinates(df[i], i) \o CoordinatesOfRows(df, i + 1)

\* lines 871-950
extract_coordinates(df) == CoordinatesOfRows(df, 1)

Cells ==
    { Missing, Number(50), Number(91), Number(181), Number(NaN), Text(42),
      Text(Bad), Array(TRUE, <<44, 48>>), Array(TRUE, <<>>),
      Array(FALSE, <<44, Bad>>), Array(TRUE, <<200, -95>>) }

CellRows == [lon : Cells, lat : Cells]

RECURSIVE Tables(_)
Tables(n) ==
    IF n = 0 THEN {<<>>}
    ELSE Tables(n - 1) \cup
         {Append(tb, r) : tb \in {x \in Tables(n - 1) : Len(x) = n - 1}, r \in CellRows}

InitCoords ==
    /\ InitInstance /\ InitWeb
    /\ arg \in Tables(MaxRows)
    /\ ret = <<>>
    /\ fpc = "ready"

fnFrame == <<sharedVars, pc, callVars, runVars, initVars, summary_calls,
             resolveVars, webVars>>

CallExtractCoordinates ==
    /\ fpc = "ready"
    /\ ret' = extract_coordinates(arg)
    /\ fpc' = "returned"
    /\ UNCHANGED <<arg, fnFrame>>

SpecCoords == InitCoords /\ [][CallExtractCoordinates]_vars

\* ------------------------------------- _extract_candidate_bindings
\* Error messages as token sequences: the marker, line ends, quoted
\* names and other text.
MsgTokens == {CB, NL, "ColA", "ColB", "text"}

RECURSIVE Messages(_)
Messages(n) ==
    IF n = 0 THEN {<<>>}
    ELSE Messages(n - 1) \cup
         {Append(m, t) : m \in {x \in Messages(n - 1) : Len(x) = n - 1}, t \in MsgTokens}

InitBindings ==
    /\ InitInstance /\ InitWeb
    /\ arg \in Messages(MaxMsgLen)
    /\ ret = <<>>
    /\ fpc = "ready"

CallExtractCandidateBindings ==
    /\ fpc = "ready"
    /\ ret' = _extract_candidate_bindings(arg)
    /\ fpc' = "returned"
    /\ UNCHANGED <<arg, fnFrame>>

SpecBindings == InitBindings /\ [][CallExtractCandidateBindings]_vars

\* ------------------------------------------- RAGSystem.classify_query
RECURSIVE SeqsUpTo(_, _)
SeqsUpTo(S, n) ==
    IF n = 0 THEN {<<>>}
    ELSE SeqsUpTo(S, n - 1) \cup
         {Append(x, t) : x \in {y \in SeqsUpTo(S, n - 1) : Len(y) = n - 1}, t \in S}

\* the question as a sequence of characters
QueryChars == {">", "=", "1", "a"}
Digits == {"1"}
\* the upper-cased answer of the LLM as a sequence of words
AnswerWords == {"STRUCTURED", "SEMANTIC", "COMBINED", "OTHER"}

In(word, text) == \E i \in 1..Len(text) : text[i] = word

\* without the test for digits
Heuristic_operatorsOnly(user_query) ==
    IF \/ \E i \in 1..Len(user_query) : user_query[i] \in {">", "<", "="}
       \/ \E i \in 1..(Len(user_query) - 1) :
             user_query[i] \in {">", "<"} /\ user_query[i + 1] = "="
    THEN "STRUCTURED" ELSE "SEMANTIC"

\* lines 169-171 and 175-177
Heuristic(user_query) ==
    IF \/ \E i \in 1..Len(user_query) : user_query[i] \in {">", "<", "="}
       \/ \E i \in 1..(Len(user_query) - 1) :
             user_query[i] \in {">", "<"} /\ user_query[i + 1] = "="
       \/ \E i \in 1..Len(user_query) : user_query[i] \in Digits
    THEN "STRUCTURED" ELSE "SEMANTIC"

\* lines 160-171
Normalize(query_type, user_query) ==
    IF In("STRUCTURED", query_type) THEN "STRUCTURED"
    ELSE IF In("SEMANTIC", query_type) THEN "SEMANTIC"
    ELSE IF In("COMBINED", query_type) THEN "COMBINED"
    ELSE Heuristic(user_query)

InitClassify ==
    /\ InitInstance /\ InitWeb
    /\ arg \in [user_query : SeqsUpTo(QueryChars, MaxQueryLen),
                llm : {"pending"}, answer : {<<>>}]
    /\ ret = None
    /\ fpc = "ready"

ClassifyLLMReturn(answer) ==
    /\ fpc = "ready"
    /\ arg' = [arg EXCEPT !.llm = "answered", !.answer = answer]
    /\ ret' = Normalize(answer, arg.user_query)
    /\ fpc' = "returned"
    /\ UNCHANGED fnFrame

ClassifyLLMFail ==
    /\ fpc = "ready"
    /\ arg' = [arg EXCEPT !.llm = "failed"]
    /\ ret' = Heuristic(arg.user_query)
    /\ fpc' = "returned"
    /\ UNCHANGED fnFrame

NextClassify ==
    \/ \E answer \in SeqsUpTo(AnswerWords, MaxAnswerLen) : ClassifyLLMReturn(answer)
    \/ ClassifyLLMFail

SpecClassify == InitClassify /\ [][NextClassify]_vars

\* ------------------------------------- QueryFormalizer.formalize_query
AVAILABLE_ATTRIBUTES == {"Corg", "R0", "depth", "region", "layer_name", "location"}
AVAILABLE_ACTIONS == {"max", "min", "avg", "sum", "count", "list"}

\* a JSON value that cannot be a dict key (a list or an object)
Unhashable == "unhashable"
\* JSON values Python treats as false besides null
EmptyString == ""
JsonFalse == "false"
Falsy == {None, EmptyString, JsonFalse}

\* the value of the "attributes" key: absent, not a list, or a list
AttrAbsent == [t |-> "absent", items |-> <<>>]
AttrNotList == [t |-> "string", items |-> <<>>]
AttrList(items) == [t |-> "list", items |-> items]
AttrItems == {"Corg", "R0", "porosity", Unhashable}
AttrValues ==
    {AttrAbsent, AttrNotList} \cup {AttrList(x) : x \in SeqsUpTo(AttrItems, MaxAttrs)}

\* the value of the "action" key; None is null or an absent key
ActionValues == {None, "max", "list", "median", EmptyString, JsonFalse, Unhashable}

\* what json.loads gives: a dict with the two keys, or another value
JsonDict(attributes, action) == [kind |-> "dict", attributes |-> attributes, action |-> action]
JsonOther == [kind |-> "other", attributes |-> AttrAbsent, action |-> None]
JsonValues ==
    {JsonOther} \cup {JsonDict(a, act) : a \in AttrValues, act \in ActionValues}

\* the text of the answer: the JSON alone, inside a markdown fence, inside
\* other text, or no JSON at all
Wraps == {"plain", "fenced", "embedded", "none"}
Responses == [wrap : Wraps \ {"none"}, value : JsonValues]
                 \cup {[wrap |-> "none", value |-> JsonOther]}

\* lines 155-166: returned when no JSON is found, and by the except clause
EmptyQuery == [attributes |-> <<>>, action |-> None]

\* every listed name is kept
FilterAttributes_keepsAll(items) == items

\* line 174
RECURSIVE FilterAttributes(_)
FilterAttributes(items) ==
    IF items = <<>> THEN <<>>
    ELSE IF Head(items) \in AVAILABLE_ATTRIBUTES
         THEN <<Head(items)>> \o FilterAttributes(Tail(items))
         ELSE FilterAttributes(Tail(items))

\* lines 169-187 on the parsed value; a TypeError or AttributeError ends
\* in the except clause of lines 189-194
Validate(parsed) ==
    IF parsed.kind # "dict" THEN EmptyQuery
    ELSE IF parsed.attributes.t = "list" /\ In(Unhashable, parsed.attributes.items)
    THEN EmptyQuery
    ELSE IF parsed.action = Unhashable THEN EmptyQuery
    ELSE [attributes |-> IF parsed.attributes.t = "list"
                         THEN FilterAttributes(parsed.attributes.items)
                         ELSE <<>>,
          action |-> IF parsed.action \notin Falsy /\ parsed.action \notin AVAILABLE_ACTIONS
                     THEN None
                     ELSE parsed.action]

\* lines 142-194
formalize_query(response) ==
    IF response.wrap = "none" THEN EmptyQuery ELSE Validate(response.value)

InitFormalize ==
    /\ InitInstance /\ InitWeb
    /\ arg = [llm |-> "pending", response |-> [wrap |-> "none", value |-> JsonOther]]
    /\ ret = EmptyQuery
    /\ fpc = "ready"

FormalizeLLMReturn(response) ==
    /\ fpc = "ready"
    /\ arg' = [llm |-> "answered", response |-> response]
    /\ ret' = formalize_query(response)
    /\ fpc' = "returned"
    /\ UNCHANGED fnFrame

FormalizeLLMFail ==
    /\ fpc = "ready"
    /\ arg' = [arg EXCEPT !.llm = "failed"]
    /\ ret' = EmptyQuery
    /\ fpc' = "returned"
    /\ UNCHANGED fnFrame

NextFormalize ==
    \/ \E response \in Responses : FormalizeLLMReturn(response)
    \/ FormalizeLLMFail

SpecFormalize == InitFormalize /\ [][NextFormalize]_vars

\* ------------------------------------------- CSVSQLEngine._load_csv
\* A column name: an optional leading blank, a stem, and the _dupN
\* suffixes that follow it, e.g. " regio_dup1".
ColName(lead, stem, dups) == [lead |-> lead, stem |-> stem, dups |-> dups]
Stems == {"Regio", "regio", "lat"}
ColNames == {ColName(l, st, ds) : l \in BOOLEAN, st \in Stems, ds \in {<<>>, <<1>>}}

\* col.strip().lower()
StripLower(col) ==
    ColName(FALSE, IF col.stem = "Regio" THEN "regio" ELSE col.stem, col.dups)

\* f"{col}_dup{count}"
WithSuffix(col, count) == [col EXCEPT !.dups = Append(@, count)]

NoneSeen == [key \in {StripLower(c) : c \in ColNames} |-> 0]

\* lines 338-349: seen_cols maps a key to its count, 0 for an absent key
RECURSIVE RenameFrom(_, _, _)
RenameFrom(columns, i, seen_cols) ==
    IF i > Len(columns) THEN <<>>
    ELSE LET col == columns[i]
             col_lower == StripLower(col)
         IN  IF seen_cols[col_lower] > 0
             THEN <<WithSuffix(col, seen_cols[col_lower])>> \o
                  RenameFrom(columns, i + 1,
                             [seen_cols EXCEPT ![col_lower] = seen_cols[col_lower] + 1])
             ELSE <<col>> \o
                  RenameFrom(columns, i + 1, [seen_cols EXCEPT ![col_lower] = 1])

\* lines 329-356: the new value of self.df.columns
_load_csv(columns) == RenameFrom(columns, 1, NoneSeen)

\* read_csv gives every column its own name
Headers ==
    {h \in SeqsUpTo(ColNames, MaxCols) :
        \A i \in 1..Len(h) : \A j \in 1..Len(h) : i # j => h[i] # h[j]}

InitLoad ==
    /\ InitInstance /\ InitWeb
    /\ arg \in Headers
    /\ ret = <<>>
    /\ fpc = "ready"

LoadCsv ==
    /\ fpc = "ready"
    /\ ret' = _load_csv(arg)
    /\ fpc' = "returned"
    /\ UNCHANGED <<arg, fnFrame>>

\* lines 354-356: read_csv failed and the error is raised again
LoadCsvFails ==
    /\ fpc = "ready"
    /\ fpc' = "raised"
    /\ UNCHANGED <<arg, ret, fnFrame>>

NextLoad == LoadCsv \/ LoadCsvFails

SpecLoad == InitLoad /\ [][NextLoad]_vars

\* --------------------------------------- export_index / import_index
\* A document of an index: its _id and its _source.
DocIds == 1..MaxDocs
Sources == {"a", "b"}
Hit(id, source) == [_id |-> id, _source |-> source]

\* the documents of the source index in the order the scroll returns them
IndexContents ==
    {h \in SeqsUpTo({Hit(i, src) : i \in DocIds, src \in Sources}, MaxDocs) :
        \A i \in 1..Len(h) : \A j \in 1..Len(h) : i # j => h[i]._id # h[j]._id}

\* import_opensearch.BATCH_SIZE, scaled down from 100
BATCH_SIZE == 2

Min(a, b) == IF a < b THEN a ELSE b

NoImport ==
    [target |-> {}, processed_count |-> 0, total_successful |-> 0,
     total_failed |-> 0, success |-> FALSE]

InitRoundTrip ==
    /\ InitInstance /\ InitWeb
    /\ arg \in [index : IndexContents, documents : {<<>>}]
    /\ ret = NoImport
    /\ fpc = "ready"

\* export_index lines 64-146: every hit of the scroll is written to the file
ExportIndex ==
    /\ fpc = "ready"
    /\ arg' = [arg EXCEPT !.documents = arg.index]
    /\ fpc' = "exported"
    /\ UNCHANGED <<ret, fnFrame>>

\* export_index lines 148-152: an OpenSearch or file error, False is returned
ExportFails ==
    /\ fpc = "ready"
    /\ fpc' = "export failed"
    /\ UNCHANGED <<arg, ret, fnFrame>>

\* import_index lines 147-292: the file is read and the index is created
ImportCreate ==
    /\ fpc = "exported"
    /\ fpc' = "importing"
    /\ UNCHANGED <<arg, ret, fnFrame>>

\* import_index lines 400-404: creating the index raised, False is returned
ImportCreateFails ==
    /\ fpc = "exported"
    /\ fpc' = "returned"
    /\ UNCHANGED <<arg, ret, fnFrame>>

\* the documents of the next bulk request
Batch == SubSeq(arg.documents, ret.processed_count + 1,
                Min(ret.processed_count + BATCH_SIZE, Len(arg.documents)))

\* lines 309-366, bulk() returned: the batch is indexed
BulkOk ==
    /\ fpc = "importing"
    /\ ret.processed_count < Len(arg.documents)
    /\ ret' = [ret EXCEPT !.target = @ \cup SeqToSet(Batch),
                          !.processed_count = @ + Len(Batch),
                          !.total_successful = @ + Len(Batch)]
    /\ UNCHANGED <<arg, fpc, fnFrame>>

\* lines 343-345 and 366-368, bulk() raised: the first k documents of the
\* batch were indexed, the whole batch is counted as failed
BulkRaises(k) ==
    /\ fpc = "importing"
    /\ ret.processed_count < Len(arg.documents)
    /\ k < Len(Batch)
    /\ ret' = [ret EXCEPT !.target = @ \cup SeqToSet(SubSeq(Batch, 1, k)),
                          !.processed_count = @ + Len(Batch),
                          !.total_failed = @ + Len(Batch)]
    /\ UNCHANGED <<arg, fpc, fnFrame>>

\* lines 370-398: refresh, count, warning, return True
ImportReturn ==
    /\ fpc = "importing"
    /\ ret.processed_count = Len(arg.documents)
    /\ ret' = [ret EXCEPT !.success = TRUE]
    /\ fpc' = "returned"
    /\ UNCHANGED <<arg, fnFrame>>

NextRoundTrip ==
    \/ ExportIndex
    \/ ExportFails
    \/ ImportCreate
    \/ ImportCreateFails
    \/ BulkOk
    \/ \E k \in 0..(BATCH_SIZE - 1) : BulkRaises(k)
    \/ ImportReturn

SpecRoundTrip == InitRoundTrip /\ [][NextRoundTrip]_vars

\* ------------------------- CSVSQLEngine._ensure_coordinates_in_select
\* A query is the list of the items between SELECT and FROM; matches tells
\* whether the text has the form SELECT ... FROM at all.
SelectItems == {"*", "lon", "lat", "region", "longitude", "latitude", "plate"}

\* re.search(r'["`]?lon["`]?...', select_columns, re.IGNORECASE): the
\* letters lon occur somewhere in the list
HasLonText(items) ==
    \E i \in 1..Len(items) : items[i] \in {"lon", "longitude"}
\* likewise for the letters lat
HasLatText(items) ==
    \E i \in 1..Len(items) : items[i] \in {"lat", "latitude", "plate"}

\* lines 649-653
columns_to_add(items) ==
    (IF HasLonText(items) THEN <<>> ELSE <<"lon">>)
    \o (IF HasLatText(items) THEN <<>> ELSE <<"lat">>)

\* lines 599-677
_ensure_coordinates_in_select(q, has_lon, has_lat) ==
    IF ~(has_lon /\ has_lat) THEN q
    ELSE IF ~q.matches THEN q
    ELSE IF HasLonText(q.select) /\ HasLatText(q.select) THEN q
    ELSE IF q.select = <<"*">>
         THEN [q EXCEPT !.select = <<"*">> \o columns_to_add(q.select)]
         ELSE [q EXCEPT !.select = q.select \o columns_to_add(q.select)]

SelectQueries ==
    [matches : BOOLEAN, select : SeqsUpTo(SelectItems, MaxSelect) \ {<<>>}]

InitEnsure ==
    /\ InitInstance /\ InitWeb
    /\ arg \in [q : SelectQueries, has_lon : BOOLEAN, has_lat : BOOLEAN]
    /\ ret = [matches |-> FALSE, select |-> <<>>]
    /\ fpc = "ready"

EnsureCoordinates ==
    /\ fpc = "ready"
    /\ ret' = _ensure_coordinates_in_select(arg.q, arg.has_lon, arg.has_lat)
    /\ fpc' = "returned"
    /\ UNCHANGED <<arg, fnFrame>>

SpecEnsure == InitEnsure /\ [][EnsureCoordinates]_vars

\* ------------- FeatureDescriptionGenerator.generate_descriptions_batch
BatchFeatures == {"f1", "f2"}
\* the value of a name that is no key of the dict
Absent == "absent"
DescriptionText == "description"

NoDescriptions == [name \in BatchFeatures |-> Absent]
DescriptionMaps == [BatchFeatures -> {Absent, EmptyString, DescriptionText}]

FeatureLists == {<<"f1">>, <<"f1", "f2">>, <<"f2", "f1">>}

\* ret: the progress file, the dict of the running call, the position of
\* its loop; loaded and requested are history of the current run
InitBatch ==
    /\ InitInstance /\ InitWeb
    /\ arg \in [feature_names : FeatureLists]
    /\ ret \in [file : {NoDescriptions}, descriptions : {NoDescriptions},
                idx : {0}, run : {0}, loaded : {NoDescriptions}, requested : {{}}]
    /\ fpc = "ready"

\* lines 154-168: the call starts and reads the progress file; when the
\* file cannot be read the dict stays empty
BatchStart(readable) ==
    /\ fpc \in {"ready", "returned"}
    /\ ret.run < MaxRuns
    /\ LET d == IF readable THEN ret.file ELSE NoDescriptions
       IN  ret' = [ret EXCEPT !.descriptions = d, !.loaded = d, !.idx = 0,
                              !.run = @ + 1, !.requested = {}]
    /\ fpc' = "loop"
    /\ UNCHANGED <<arg, fnFrame>>

\* line 171: feature_name in descriptions and descriptions[feature_name]
AlreadyDescribed(descriptions, name) ==
    descriptions[name] # Absent /\ descriptions[name] # EmptyString

\* lines 169-173
BatchSkip ==
    /\ fpc = "loop"
    /\ ret.idx < Len(arg.feature_names)
    /\ AlreadyDescribed(ret.descriptions, arg.feature_names[ret.idx + 1])
    /\ ret' = [ret EXCEPT !.idx = @ + 1]
    /\ UNCHANGED <<arg, fpc, fnFrame>>

\* lines 175-193: generate_description returned text (the empty
\* string stands for None); saved tells whether the file could be written
BatchGenerate(text, saved) ==
    /\ fpc = "loop"
    /\ ret.idx < Len(arg.feature_names)
    /\ LET name == arg.feature_names[ret.idx + 1]
           d == [ret.descriptions EXCEPT ![name] = text]
       IN  /\ ~AlreadyDescribed(ret.descriptions, name)
           /\ ret' = [ret EXCEPT !.descriptions = d,
                                 !.file = IF saved THEN d ELSE @,
                                 !.requested = @ \cup {name},
                                 !.idx = @ + 1]
    /\ UNCHANGED <<arg, fpc, fnFrame>>

\* lines 199-200
BatchReturn ==
    /\ fpc = "loop"
    /\ ret.idx = Len(arg.feature_names)
    /\ fpc' = "returned"
    /\ UNCHANGED <<arg, ret, fnFrame>>

NextBatch ==
    \/ \E readable \in BOOLEAN : BatchStart(readable)
    \/ BatchSkip
    \/ \E text \in {EmptyString, DescriptionText}, saved \in BOOLEAN :
          BatchGenerate(text, saved)
    \/ BatchReturn

SpecBatch == InitBatch /\ [][NextBatch]_vars

\* ------------------------------------------------ rag_api token_stats
Models == {"GigaChat-2-Pro", "GigaChat:light"}
TokenCounts == {0, 2, 3}

\* lines 60-67: the entry of a model that has no statistics yet
NoStats == [requests_count |-> 0, total_tokens |-> 0, prompt_tokens |-> 0,
            completion_tokens |-> 0]

\* lines 41-79; given is false when total_tokens is None
record_token_usage(stats, model, prompt_tokens, completion_tokens, given, total_tokens) ==
    [stats EXCEPT
       ![model] = [requests_count |-> @.requests_count + 1,
                   prompt_tokens |-> @.prompt_tokens + prompt_tokens,
                   completion_tokens |-> @.completion_tokens + completion_tokens,
                   total_tokens |-> @.total_tokens +
                       (IF given THEN total_tokens
                        ELSE prompt_tokens + completion_tokens)]]

\* the usage of a response: has_usage and has_total tell whether the
\* response has a usage and the usage a total_tokens attribute
Usages ==
    [has_usage : BOOLEAN, has_total : BOOLEAN, prompt_tokens : TokenCounts,
     completion_tokens : TokenCounts, total_tokens : {0, 5}]

\* lines 82-114
record_from_response(stats, model, usage) ==
    LET prompt_tokens == IF usage.has_usage THEN usage.prompt_tokens ELSE 0
        completion_tokens == IF usage.has_usage THEN usage.completion_tokens ELSE 0
        total_tokens == IF usage.has_usage /\ usage.has_total
                        THEN usage.total_tokens ELSE 0
    IN  IF total_tokens > 0 \/ prompt_tokens > 0 \/ completion_tokens > 0
        THEN record_token_usage(stats, model, prompt_tokens, completion_tokens,
                                TRUE, total_tokens)
        ELSE stats

\* ret is _token_stats, arg the number of calls made
InitStats ==
    /\ InitInstance /\ InitWeb
    /\ arg = 0
    /\ ret = [model \in Models |-> NoStats]
    /\ fpc = "ready"

RecordTokenUsage(model, prompt_tokens, completion_tokens, given, total_tokens) ==
    /\ arg < MaxRecords
    /\ arg' = arg + 1
    /\ ret' = record_token_usage(ret, model, prompt_tokens, completion_tokens,
                                 given, total_tokens)
    /\ UNCHANGED <<fpc, fnFrame>>

RecordFromResponse(model, usage) ==
    /\ arg < MaxRecords
    /\ arg' = arg + 1
    /\ ret' = record_from_response(ret, model, usage)
    /\ UNCHANGED <<fpc, fnFrame>>

NextStats ==
    \/ \E model \in Models, p \in TokenCounts, c \in TokenCounts,
          given \in BOOLEAN, total \in {0, 5} :
          RecordTokenUsage(model, p, c, given, total)
    \/ \E model \in Models, usage \in Usages : RecordFromResponse(model, usage)

SpecStats == InitStats /\ [][NextStats]_vars

\* ------------- generate_final_summary and extract_coordinates on a row
\* pd.notna is false for None and for the float nan
IsNa(cell) == cell.k = "missing" \/ (cell.k = "number" /\ cell.v = NaN)

\* lines 687-705: lon_str or lat_str after the handling of arrays; last
\* tells which element of an array is taken.  shown is false for the empty
\* string and for the texts 'nan' and 'None'
CoordinateText(cell, last) ==
    IF cell.k # "array" THEN [shown |-> cell.v # NaN, v |-> cell.v]
    ELSE IF cell.elems = <<>> THEN [shown |-> cell.literal, v |-> Bad]
    ELSE LET e == IF last THEN cell.elems[Len(cell.elems)] ELSE cell.elems[1]
         IN  [shown |-> e # NaN, v |-> e]

\* lines 684-708: the row gets a line in coordinates_list
RowHasLine(row) ==
    /\ ~IsNa(row.lon) /\ ~IsNa(row.lat)
    /\ CoordinateText(row.lon, FALSE).shown
    /\ CoordinateText(row.lat, TRUE).shown

\* the indexes of the rows with a line in coordinates_list
RECURSIVE LinesOfRows(_, _)
LinesOfRows(df, i) ==
    IF i > Len(df) THEN <<>>
    ELSE (IF RowHasLine(df[i]) THEN <<i>> ELSE <<>>) \o LinesOfRows(df, i + 1)

InitAnswer ==
    /\ InitInstance /\ InitWeb
    /\ arg \in Tables(MaxRows)
    /\ ret = [lines |-> <<>>, coordinates |-> <<>>, has_coordinates |-> FALSE]
    /\ fpc = "ready"

\* views.py run_query lines 250-269: the answer is generated from the
\* merged result, then the coordinates are extracted from it
BuildResult ==
    /\ fpc = "ready"
    /\ ret' = [lines |-> LinesOfRows(arg, 1),
               coordinates |-> extract_coordinates(arg),
               has_coordinates |-> Len(extract_coordinates(arg)) > 0]
    /\ fpc' = "returned"
    /\ UNCHANGED <<arg, fnFrame>>

SpecAnswer == InitAnswer /\ [][BuildResult]_vars

\* ------------------------------------------------------- rag_api views
\* Texts of exceptions (str(e)).
ConstructorErrorText == "OSError: cannot load the embedding model"
QueueTypeErrorText == "TypeError: 'Queue' object does not support item assignment"
PipelineErrorText == "InvalidIndexError: Reindexing only valid with uniquely valued Index objects"
RawTexts == {ConstructorErrorText, QueueTypeErrorText, PipelineErrorText}

EmptyQueryText == "the query must not be empty"
RequestFailedPrefix == "request processing error:"

\* lines 236-244: the progress record of a QueryView request
NewRecord ==
    [kind |-> "dict", step |-> 0, progress |-> 0, message |-> "init",
     status |-> "processing", result |-> None, error |-> <<>>]

\* line 348: queue.Queue()
NewQueue == [kind |-> "queue"]

\* lines 87-90: item assignment works on the dict, not on a Queue object
CanAssign(st) == st.kind = "dict"

\* lines 84-91: _send_progress_event on a dict
Update(st, step, progress) ==
    [st EXCEPT !.step = step, !.progress = progress, !.message = "progress"]

RECURSIVE UpdateAll(_, _)
UpdateAll(st, evs) ==
    IF evs = <<>> THEN st
    ELSE UpdateAll(Update(st, Head(evs)[1], Head(evs)[2]), Tail(evs))

Response(code, kind, error) ==
    [code |-> code, kind |-> kind, error |-> error, result |-> None]

NotFoundText == "request not found"

\* QueryProgressView.get lines 314 and 327: the copy of the record
PollResponse(st) ==
    [code |-> 200, kind |-> st.status, error |-> st.error, result |-> st.result]

\* line 147
check_progress(idx, n) == 45 + ((idx + 1) * 15) \div n
\* line 171
sql_progress(idx, m) == 65 + ((idx + 1) * 20) \div m

webFrame == <<sharedVars, pc, callVars, runVars, initVars, summary_calls,
              resolveVars, fnVars>>

\* QueryView.post lines 221-228, QueryStreamView.post lines 338-343
Receive(view, empty) ==
    /\ wpc = "idle"
    /\ wview' = view
    /\ IF empty
       THEN /\ responses' = Append(responses,
                   Response(IF view = "QueryView" THEN 400 ELSE 200, "error",
                            <<EmptyQueryText>>))
            /\ wpc' = "closed"
            /\ UNCHANGED storage
       ELSE /\ storage' = IF view = "QueryView" THEN NewRecord ELSE NewQueue
            /\ wpc' = "get_rag_system"
            /\ UNCHANGED responses
    /\ UNCHANGED <<wk, wloc, werror, progress_log, cleanup, webFrame>>

\* lines 247-287, 351-367: get_rag_system returned, the thread is started
RagSystemReady ==
    /\ wpc = "get_rag_system"
    /\ wk' = "start"
    /\ IF wview = "QueryView"
       THEN /\ responses' = Append(responses, Response(200, "started", <<>>))
            /\ wpc' = "closed"
       ELSE /\ wpc' = "streaming"
            /\ UNCHANGED responses
    /\ UNCHANGED <<wview, storage, wloc, werror, progress_log, cleanup, webFrame>>

\* lines 289-293, 416-418: get_rag_system raised
RagSystemFails ==
    /\ wpc = "get_rag_system"
    /\ responses' = Append(responses,
           IF wview = "QueryView"
           THEN Response(500, "error", <<RequestFailedPrefix, ConstructorErrorText>>)
           ELSE Response(200, "error", <<ConstructorErrorText>>))
    /\ wpc' = "closed"
    /\ UNCHANGED <<wview, wk, storage, wloc, werror, progress_log, cleanup, webFrame>>

\* _rag_query_with_progress lines 107-112
WDescribe ==
    /\ wk = "start"
    /\ CanAssign(storage)
    /\ storage' = UpdateAll(storage, <<(<<1, 5>>), (<<1, 20>>), (<<2, 25>>)>>)
    /\ progress_log' = progress_log \o <<(<<1, 5>>), (<<1, 20>>), (<<2, 25>>)>>
    /\ wk' = "search"
    /\ UNCHANGED <<wview, wpc, wloc, werror, responses, cleanup, webFrame>>

\* line 107 on a Queue: the assignment raises, the handler of lines
\* 205-209 calls _send_progress_event again, which raises out of the
\* function; run_query of lines 362-364 keeps str(e)
WSendRaises ==
    /\ wk = "start"
    /\ ~CanAssign(storage)
    /\ werror' = <<QueueTypeErrorText>>
    /\ progress_log' = Append(progress_log, <<1, 5>>)
    /\ wk' = "finished"
    /\ UNCHANGED <<wview, wpc, storage, wloc, responses, cleanup, webFrame>>

\* lines 113-122
WSearch(n) ==
    /\ wk = "search"
    /\ wloc' = [n |-> n, idx |-> 0, m |-> 0, fidx |-> 0]
    /\ IF n = 0
       THEN /\ storage' = Update(storage, 2, 40)
            /\ progress_log' = Append(progress_log, <<2, 40>>)
            /\ wk' = "returned"
       ELSE /\ storage' = UpdateAll(storage, <<(<<2, 40>>), (<<3, 45>>)>>)
            /\ progress_log' = progress_log \o <<(<<2, 40>>), (<<3, 45>>)>>
            /\ wk' = "verify"
    /\ UNCHANGED <<wview, wpc, werror, responses, cleanup, webFrame>>

\* lines 125-155: one document with a feature name
WVerify(matched) ==
    /\ wk = "verify"
    /\ wloc.idx < wloc.n
    /\ storage' = Update(storage, 3, check_progress(wloc.idx, wloc.n))
    /\ progress_log' = Append(progress_log, <<3, check_progress(wloc.idx, wloc.n)>>)
    /\ wloc' = [wloc EXCEPT !.idx = @ + 1, !.m = IF matched THEN @ + 1 ELSE @]
    /\ UNCHANGED <<wview, wpc, wk, werror, responses, cleanup, webFrame>>

\* lines 143-144: a document without a feature name
WVerifySkip ==
    /\ wk = "verify"
    /\ wloc.idx < wloc.n
    /\ wloc' = [wloc EXCEPT !.idx = @ + 1]
    /\ UNCHANGED <<wview, wpc, wk, storage, werror, responses, progress_log, cleanup, webFrame>>

\* lines 157-165
WVerifyDone ==
    /\ wk = "verify"
    /\ wloc.idx = wloc.n
    /\ IF wloc.m = 0
       THEN /\ storage' = Update(storage, 3, 60)
            /\ progress_log' = Append(progress_log, <<3, 60>>)
            /\ wk' = "returned"
       ELSE /\ storage' = UpdateAll(storage, <<(<<3, 60>>), (<<4, 65>>)>>)
            /\ progress_log' = progress_log \o <<(<<3, 60>>), (<<4, 65>>)>>
            /\ wk' = "sql"
    /\ UNCHANGED <<wview, wpc, wloc, werror, responses, cleanup, webFrame>>

\* lines 171-183: the updates made for one matched feature; outcome is
\* "none" (no query), "empty" (a query without rows) or "rows"
SqlUpdates(idx, m, outcome) ==
    <<(<<4, sql_progress(idx, m)>>)>>
    \o (IF outcome # "none" THEN <<(<<4, sql_progress(idx, m) + 2>>)>> ELSE <<>>)
    \o (IF outcome = "rows" THEN <<(<<4, sql_progress(idx, m) + 4>>)>> ELSE <<>>)

\* lines 167-183
WSql(outcome) ==
    /\ wk = "sql"
    /\ wloc.fidx < wloc.m
    /\ storage' = UpdateAll(storage, SqlUpdates(wloc.fidx, wloc.m, outcome))
    /\ progress_log' = progress_log \o SqlUpdates(wloc.fidx, wloc.m, outcome)
    /\ wloc' = [wloc EXCEPT !.fidx = @ + 1]
    /\ UNCHANGED <<wview, wpc, wk, werror, responses, cleanup, webFrame>>

\* lines 185-203
WSummary ==
    /\ wk = "sql"
    /\ wloc.fidx = wloc.m
    /\ storage' = UpdateAll(storage, <<(<<4, 85>>), (<<5, 90>>), (<<5, 100>>)>>)
    /\ progress_log' = progress_log \o <<(<<4, 85>>), (<<5, 90>>), (<<5, 100>>)>>
    /\ wk' = "returned"
    /\ UNCHANGED <<wview, wpc, wloc, werror, responses, cleanup, webFrame>>

\* QueryView.post run_query lines 259-269
WStoreResult ==
    /\ wk = "returned"
    /\ storage' = [storage EXCEPT !.result = "result"]
    /\ wk' = "stored"
    /\ UNCHANGED <<wview, wpc, wloc, werror, responses, progress_log, cleanup, webFrame>>

\* lines 270-273
WComplete ==
    /\ wk = "stored"
    /\ storage' = [storage EXCEPT !.status = "completed", !.progress = 100,
                                  !.step = 6, !.message = "done"]
    /\ wk' = "finished"
    /\ UNCHANGED <<wview, wpc, wloc, werror, responses, progress_log, cleanup, webFrame>>

\* _rag_query_with_progress lines 205-209: a step of the pipeline raised
\* (pd.concat on line 186); the error is written as progress 0 and raised
\* again
WRaise ==
    /\ wk = "sql"
    /\ wloc.fidx = wloc.m
    /\ storage' = Update(storage, 0, 0)
    /\ werror' = <<PipelineErrorText>>
    /\ wk' = "raised"
    /\ UNCHANGED <<wview, wpc, wloc, responses, progress_log, cleanup, webFrame>>

\* run_query line 277
WSetStatusError ==
    /\ wk = "raised"
    /\ storage' = [storage EXCEPT !.status = "error"]
    /\ wk' = "status set"
    /\ UNCHANGED <<wview, wpc, wloc, werror, responses, progress_log, cleanup, webFrame>>

\* run_query line 278; a KeyError ends the thread when the record is gone
WSetError ==
    /\ wk = "status set"
    /\ storage' = IF storage.kind = "dict" THEN [storage EXCEPT !.error = werror]
                  ELSE storage
    /\ wk' = "finished"
    /\ UNCHANGED <<wview, wpc, wloc, werror, responses, progress_log, cleanup, webFrame>>

\* QueryProgressView.get lines 300-327
Poll ==
    /\ wview = "QueryView"
    /\ wk # "none"
    /\ Len(responses) < MaxPolls + 1
    /\ IF storage.kind = "dict"
       THEN /\ responses' = Append(responses, PollResponse(storage))
            /\ cleanup' = IF storage.status \in {"completed", "error"}
                          THEN cleanup + 1 ELSE cleanup
       ELSE /\ responses' = Append(responses, Response(404, "error", <<NotFoundText>>))
            /\ UNCHANGED cleanup
    /\ UNCHANGED <<wview, wpc, wk, storage, wloc, werror, progress_log, webFrame>>

\* lines 320-324: a cleanup thread wakes up after its 30 seconds
Cleanup ==
    /\ cleanup > 0
    /\ cleanup' = cleanup - 1
    /\ storage' = NoStorage
    /\ UNCHANGED <<wview, wpc, wk, wloc, werror, responses, progress_log, webFrame>>

\* QueryStreamView lines 372-418: the thread has ended, the final event
StreamEnd ==
    /\ wpc = "streaming"
    /\ wk = "finished"
    /\ responses' = Append(responses,
           IF werror # <<>> THEN Response(200, "error", werror)
           ELSE Response(200, "result", <<>>))
    /\ wpc' = "closed"
    /\ UNCHANGED <<wview, wk, storage, wloc, werror, progress_log, cleanup, webFrame>>

\* ---------------------------------------------------- specifications
Step(t) ==
    \/ \E n \in 1..MaxFeatures : StartQuery(t, n)
    \/ BeginGenerate(t)
    \/ Generate(t)
    \/ \E q \in Queries : LLMReturn(t, q)
    \/ LLMFail(t)
    \/ TestExecute(t)
    \/ HandleTestFailure(t)
    \/ Collect(t)
    \/ Combine(t)
    \/ \E text \in SummaryTexts(combined_results[t]) : SummaryLLM(t, text)
    \/ SummaryFail(t)

\* one pipeline run on the instance
Next == Step(1)
Spec == Init /\ [][Next]_vars
\* the blocking calls of a run return or raise
FairSpec == Spec /\ WF_vars(Next)

\* two pipeline runs on the shared instance (QueryView.post starts one
\* thread per request), each followed through the query synthesis of one
\* feature; the summary reads nothing of the instance that a run writes
ConcQueries == {"q_empty", "q_errAB", "q_errC"}

ConcStep(t) ==
    \/ StartQuery(t, 1)
    \/ BeginGenerate(t)
    \/ Generate(t)
    \/ \E q \in ConcQueries : LLMReturn(t, q)
    \/ LLMFail(t)
    \/ TestExecute(t)
    \/ HandleTestFailure(t)
    \/ Collect(t)

NextConc == \E t \in Threads : ConcStep(t)
SpecConc == Init /\ [][NextConc]_vars

\* query() from the question to the answer
QueryStep(t) ==
    \/ \E d \in {Description, UserQuery} : Describe(t, d)
    \/ \E k \in 0..MaxCandidates : SearchReturn(t, k)
    \/ SearchFail(t)
    \/ \E answer \in VerifyAnswers : VerifyLLM(t, answer)
    \/ VerifyFail(t)
    \/ VerifySkip(t)
    \/ VerifyDone(t)
    \/ BeginGenerate(t)
    \/ Generate(t)
    \/ \E q \in Queries : LLMReturn(t, q)
    \/ LLMFail(t)
    \/ TestExecute(t)
    \/ HandleTestFailure(t)
    \/ Collect(t)
    \/ Combine(t)
    \/ \E text \in SummaryTexts(combined_results[t]) : SummaryLLM(t, text)
    \/ SummaryFail(t)

NextQuery == QueryStep(1)
SpecQuery == Init /\ [][NextQuery]_vars

\* one request to the API, its thread and the polls of its progress
NextWeb ==
    \/ \E view \in {"QueryView", "QueryStreamView"}, empty \in BOOLEAN :
          Receive(view, empty)
    \/ RagSystemReady
    \/ RagSystemFails
    \/ WDescribe
    \/ WSendRaises
    \/ \E n \in 0..MaxCandidates : WSearch(n)
    \/ \E matched \in BOOLEAN : WVerify(matched)
    \/ WVerifySkip
    \/ WVerifyDone
    \/ \E outcome \in {"none", "empty", "rows"} : WSql(outcome)
    \/ WSummary
    \/ WStoreResult
    \/ WComplete
    \/ WRaise
    \/ WSetStatusError
    \/ WSetError
    \/ Poll
    \/ Cleanup
    \/ StreamEnd

SpecWeb == Init /\ [][NextWeb]_vars

\* the server's threads run; the client is free not to poll
ServerStep ==
    \/ RagSystemReady
    \/ RagSystemFails
    \/ WDescribe
    \/ WSendRaises
    \/ \E n \in 0..MaxCandidates : WSearch(n)
    \/ \E matched \in BOOLEAN : WVerify(matched)
    \/ WVerifySkip
    \/ WVerifyDone
    \/ \E outcome \in {"none", "empty", "rows"} : WSql(outcome)
    \/ WSummary
    \/ WStoreResult
    \/ WComplete
    \/ WRaise
    \/ WSetStatusError
    \/ WSetError
    \/ Cleanup
    \/ StreamEnd

FairSpecWeb == SpecWeb /\ WF_vars(ServerStep)

\* request threads calling get_rag_system
NextInit == \E r \in Reqs : GetCheck(r) \/ GetConstruct(r) \/ GetReturn(r)
SpecInit == Init /\ [][NextInit]_vars

\* ------------------------------------------------------------ properties
InCall(t) == pc[t] \in {"GENERATING", "LLM", "EXECUTING", "TEST_FAILED"}

ExecFailed(a) == a.query # None /\ ~a.ok
Candidates(a) == SeqToSet(_extract_candidate_bindings(a.err))

\* C1: a call of generate_sql_query with the default budget makes at most 3
\* LLM calls (failed calls included) and at most 3 test executions, returns
\* a query text or None, and every call that has started returns.
C1_BoundedAttempts ==
    /\ [](/\ llm_calls[1] <= 3
          /\ test_execs[1] <= 3
          /\ attempt[1] <= 3
          /\ (pc[1] = "RETURNED" => result[1] \in Queries \cup {None}))
    /\ (InCall(1) ~> pc[1] = "RETURNED")

C1_Witness ==
    /\ pc[1] = "RETURNED"
    /\ llm_calls[1] = 3
    /\ test_execs[1] = 2
    /\ result[1] = None

\* C2: once a generated query passes its test execution the call returns
\* that query with no further attempt or LLM call, and a returned query is
\* the one whose own test execution succeeded.
C2_SuccessReturnsImmediately ==
    /\ \A i \in 1..Len(hist[1]) :
          hist[1][i].ok =>
             /\ i = Len(hist[1])
             /\ ~InCall(1)
             /\ result[1] = hist[1][i].query
             /\ llm_calls[1] = i
             /\ attempt[1] = i
    /\ (pc[1] = "RETURNED" /\ result[1] # None) =>
          /\ hist[1] # <<>>
          /\ hist[1][Len(hist[1])].ok
          /\ hist[1][Len(hist[1])].query = result[1]
          /\ DuckDB(result[1]).ok

C2_Witness ==
    /\ pc[1] = "RETURNED"
    /\ Len(hist[1]) = 2
    /\ ExecFailed(hist[1][1])
    /\ hist[1][2].ok
    /\ result[1] = "q_empty"

\* C3: when each of the 3 attempts failed (LLM call failed or the query
\* failed its test execution) the call returns None.
C3_ExhaustedReturnsNone ==
    (/\ pc[1] = "RETURNED"
     /\ Len(hist[1]) = max_attempts
     /\ \A i \in 1..Len(hist[1]) : ~hist[1][i].ok)
    => result[1] = None

C3_Witness ==
    /\ pc[1] = "RETURNED"
    /\ Len(hist[1]) = max_attempts
    /\ hist[1][1].query = None
    /\ ExecFailed(hist[1][2])
    /\ ExecFailed(hist[1][3])
    /\ result[1] = None

\* C4: when the query of attempt 1 failed its test execution, the repair
\* prompt of attempt 2 carries that query, the error message of its
\* execution and the candidate names extracted from that message.
C4_RepairPromptOfAttempt2 ==
    (/\ attempt[1] = 2
     /\ prompt[1].kind = "SQL_FIX_PROMPT"
     /\ hist[1] # <<>>
     /\ ExecFailed(hist[1][1]))
    => /\ prompt[1].sql_query = hist[1][1].query
       /\ prompt[1].error_message = hist[1][1].err
       /\ Candidates(hist[1][1]) \subseteq prompt[1].candidate_bindings

C4_Witness ==
    /\ attempt[1] = 2
    /\ prompt[1].kind = "SQL_FIX_PROMPT"
    /\ hist[1] # <<>>
    /\ hist[1][1].query = "q_errC"
    /\ prompt[1].error_message = ErrBinderC
    /\ prompt[1].candidate_bindings = {"ColC"}

HistoryMessages(h) == {h[i].msg : i \in {j \in 1..Len(h) : h[j].k = "attempt"}}

\* C5: when the queries of attempts 1 and 2 both failed, the prompt of
\* attempt 3 carries both error messages and its candidate names are
\* exactly the union of the names extracted from the two errors.
C5_PromptOfAttempt3 ==
    (/\ attempt[1] = 3
     /\ prompt[1].kind = "SQL_FIX_PROMPT_V2"
     /\ Len(hist[1]) >= 2
     /\ ExecFailed(hist[1][1])
     /\ ExecFailed(hist[1][2]))
    => /\ hist[1][1].err \in HistoryMessages(prompt[1].error_history)
       /\ hist[1][2].err \in HistoryMessages(prompt[1].error_history)
       /\ prompt[1].candidate_bindings =
             Candidates(hist[1][1]) \cup Candidates(hist[1][2])

\* errors and candidate names produced by the current call so far
OwnErrors(t) == {hist[t][i].err : i \in {j \in 1..Len(hist[t]) : ExecFailed(hist[t][j])}}
OwnCandidates(t) == UNION {Candidates(hist[t][i]) : i \in 1..Len(hist[t])}

\* C6: a repair prompt of a call carries no error message and no candidate
\* name other than those produced during that call.
C6_RetryStateIsPerCall ==
    prompt[1].kind \in {"SQL_FIX_PROMPT", "SQL_FIX_PROMPT_V2"} =>
       /\ prompt[1].error_message \in OwnErrors(1) \cup {UnknownError}
       /\ prompt[1].candidate_bindings \subseteq OwnCandidates(1)

\* C7: in concurrent runs on the shared instance, the repair prompt of
\* attempt 2 of a run carries the error and the candidate names of that
\* run's own failed execution.
C7_RunsDoNotInterfere ==
    \A t \in Threads :
       (/\ attempt[t] = 2
        /\ prompt[t].kind = "SQL_FIX_PROMPT"
        /\ hist[t] # <<>>
        /\ ExecFailed(hist[t][1]))
       => /\ prompt[t].error_message = hist[t][1].err
          /\ Candidates(hist[t][1]) \subseteq prompt[t].candidate_bindings

\* C8: under concurrent first use the RAG system is constructed once and
\* every caller of get_rag_system receives the same instance.
C8_ConstructedOnce ==
    /\ constructed <= 1
    /\ \A r1, r2 \in Reqs :
          (ipc[r1] = "done" /\ ipc[r2] = "done") => got[r1] = got[r2]

AnswerHasCoordinates(answer, line) ==
    \E i \in 1..Len(answer) :
       answer[i].k = "coord" /\ answer[i].lon = line.lon /\ answer[i].lat = line.lat

\* C9: when the merged result has a row with a longitude and a latitude,
\* the final answer contains the coordinates of every such row, whatever
\* the LLM answered and also when the LLM call failed.
C9_CoordinatesInAnswer ==
    pc[1] = "done" =>
       \A i \in 1..Len(combined_results[1]) :
          HasLonLat(combined_results[1][i]) =>
             AnswerHasCoordinates(final_answer[1],
                 CoordLine(i, combined_results[1][i].lon, combined_results[1][i].lat))

RECURSIVE ExpectedRows(_)
ExpectedRows(outs) ==
    IF outs = <<>> THEN <<>>
    ELSE (IF Head(outs).query # None /\ DuckDB(Head(outs).query).ok
          THEN Tag(DuckDB(Head(outs).query).rows, Head(outs).feature)
          ELSE <<>>) \o ExpectedRows(Tail(outs))

\* C10: a feature whose synthesis failed on all attempts adds no rows and
\* does not stop the run: every verified feature is processed, the merged
\* result is the concatenation, in order, of the rows of the features that
\* got a query, and the run ends with a final answer.
C10_FailedFeatureAddsNothing ==
    /\ pc[1] \in {"SUMMARY", "done"} =>
          /\ Len(outcomes[1]) = Len(matched_features[1])
          /\ \A i \in 1..Len(outcomes[1]) :
                outcomes[1][i].feature = matched_features[1][i]
          /\ combined_results[1] = ExpectedRows(outcomes[1])
    /\ pc[1] = "done" => final_answer[1] # <<>>

C10_Witness ==
    /\ pc[1] = "done"
    /\ Len(outcomes[1]) = 2
    /\ outcomes[1][1].query = "q_coords"
    /\ outcomes[1][2].query = None
    /\ Len(combined_results[1]) = 2
    /\ final_answer[1] # <<>>

\* C11: when the index returns no candidate, or the search fails, query()
\* returns an empty table with the 'no relevant features' message and makes
\* no verification, SQL-generation or summarization call.
C11_NoCandidatesNoData ==
    (pc[1] = "done" /\ search_results[1] = <<>>) =>
       /\ combined_results[1] = <<>>
       /\ final_answer[1] = NoRelevantFeatures
       /\ verify_log[1] = <<>>
       /\ outcomes[1] = <<>>
       /\ llm_calls[1] = 0
       /\ summary_calls[1] = 0

C11_Witness ==
    /\ pc[1] = "done"
    /\ search_results[1] = <<>>
    /\ description[1] = UserQuery
    /\ final_answer[1] = NoRelevantFeatures

\* C12: a candidate is accepted only on a clearly affirmative answer, and
\* only accepted candidates reach query synthesis.
C12_OnlyClearYesAccepted ==
    /\ \A i \in 1..Len(verify_log[1]) :
          verify_log[1][i].accepted => verify_log[1][i].clear
    /\ \A j \in 1..Len(matched_features[1]) :
          \E i \in 1..Len(verify_log[1]) :
             /\ verify_log[1][i].feature = matched_features[1][j]
             /\ verify_log[1][i].accepted

ErrorIsExplanation(error) == \A i \in 1..Len(error) : error[i] \notin RawTexts

\* C13: the error field of the progress record and of every response sent
\* to the client never carries the text of the underlying exception.
C13_NoRawErrorText ==
    /\ \A i \in 1..Len(responses) : ErrorIsExplanation(responses[i].error)
    /\ storage.kind = "dict" => ErrorIsExplanation(storage.error)

ScalarValue(cell) == cell.k \in {"number", "text"}

\* the cell is missing, is text that is no number, or is a number outside
\* [lo, hi]
Unusable(cell, lo, hi) ==
    \/ cell.k = "missing"
    \/ cell.k = "text" /\ cell.v = Bad
    \/ ScalarValue(cell) /\ cell.v # Bad /\ (cell.v < lo \/ cell.v > hi)

BindingsLine(msg, i, j) ==
    /\ msg[i] = CB
    /\ \A k \in 1..(i - 1) : msg[k] # CB
    /\ j > i
    /\ \A k \in (i + 1)..j : msg[k] \in QuotedNames
    /\ j = Len(msg) \/ msg[j + 1] = NL

\* C15: for a message whose 'Candidate bindings:' line lists quoted names,
\* _extract_candidate_bindings returns exactly those names in order; for a
\* message without the marker it returns the empty list.
C15_BindingsOfLine ==
    fpc = "returned" =>
       /\ (\A k \in 1..Len(arg) : arg[k] # CB) => ret = <<>>
       /\ \A i \in 1..Len(arg) : \A j \in 1..Len(arg) :
             BindingsLine(arg, i, j) => ret = SubSeq(arg, i + 1, j)

C15_Witness ==
    /\ fpc = "returned"
    /\ arg = <<"text", CB, "ColA", "ColB">>
    /\ ret = <<"ColA", "ColB">>

\* C16: a query returned by generate_sql_query names columns only by the
\* exact names of the loaded schema.
C16_ExactColumnNames ==
    (pc[1] = "RETURNED" /\ result[1] # None) => References(result[1]) \subseteq Schema

QueryLabels == {"STRUCTURED", "SEMANTIC", "COMBINED"}

OperatorOrDigit(user_query) ==
    \E i \in 1..Len(user_query) : user_query[i] \in {">", "<", "=", "1"}

\* C17: classify_query returns one of the three labels; when the LLM call
\* fails or its answer holds none of the labels, the result is STRUCTURED
\* if the question holds a comparison operator or a digit, else SEMANTIC.
C17_ClassifyTotal ==
    fpc = "returned" =>
       /\ ret \in QueryLabels
       /\ (arg.llm = "failed" \/ \A i \in 1..Len(arg.answer) : arg.answer[i] \notin QueryLabels)
             => ret = (IF OperatorOrDigit(arg.user_query) THEN "STRUCTURED" ELSE "SEMANTIC")

C17_Witness ==
    /\ fpc = "returned"
    /\ arg.llm = "answered"
    /\ arg.answer = <<"OTHER">>
    /\ arg.user_query = <<"a", "1">>
    /\ ret = "STRUCTURED"

\* C18: the attributes of the FormalizedQuery formalize_query returns are
\* all known attributes, whatever the LLM answered.
C18_AttributesKnown ==
    fpc = "returned" => SeqToSet(ret.attributes) \subseteq AVAILABLE_ATTRIBUTES

C18_Witness ==
    /\ fpc = "returned"
    /\ arg.llm = "answered"
    /\ arg.response.value.attributes = AttrList(<<"Corg", "porosity">>)
    /\ ret.attributes = <<"Corg">>

\* C19: the action of the FormalizedQuery formalize_query returns is null
\* or one of max, min, avg, sum, count, list.
C19_ActionKnownOrNull ==
    fpc = "returned" => ret.action \in AVAILABLE_ACTIONS \cup {None}

\* C20: after _load_csv no two column names are equal ignoring case and
\* surrounding whitespace.
C20_NoCaseInsensitiveDuplicates ==
    fpc = "returned" =>
       \A i \in 1..Len(ret) : \A j \in 1..Len(ret) :
          i # j => StripLower(ret[i]) # StripLower(ret[j])

\* C21: when import_index reports success, the target index holds exactly
\* the exported documents, each with the same _id and _source.
C21_RoundTripPreservesDocuments ==
    (fpc = "returned" /\ ret.success) => ret.target = SeqToSet(arg.index)

\* C22: generate_final_summary adds a coordinates section to the answer of
\* the LLM only when a coordinate pair was extracted and the answer has
\* neither the keyword nor the pin; with no pair the answer stays as it is.
C22_AppendOnlyWithCoordinates ==
    [][\A text \in SummaryTexts(combined_results[1]) :
          SummaryLLM(1, text) =>
             /\ final_answer'[1] # text =>
                   /\ coordinates_list(combined_results[1]) # <<>>
                   /\ ~Mentions(text, KW)
                   /\ ~Mentions(text, PIN)
             /\ (combined_results[1] # <<>> /\ coordinates_list(combined_results[1]) = <<>>)
                   => final_answer'[1] = text]_vars

\* the bands the docstring of _rag_query_with_progress declares
BandLow(step) ==
    CASE step = 1 -> 0 [] step = 2 -> 20 [] step = 3 -> 40 [] step = 4 -> 60 [] OTHER -> 85
BandHigh(step) ==
    CASE step = 1 -> 20 [] step = 2 -> 40 [] step = 3 -> 60 [] step = 4 -> 85 [] OTHER -> 100

\* C23: every progress update of step s has its progress value inside the
\* band of step s.
C23_ProgressInsideBand ==
    \A i \in 1..Len(progress_log) :
       /\ progress_log[i][1] \in 1..5
       /\ BandLow(progress_log[i][1]) <= progress_log[i][2]
       /\ progress_log[i][2] <= BandHigh(progress_log[i][1])

\* C24: once the stream of a QueryStreamView request has ended, the client
\* has received one event for each progress update of the pipeline, in
\* order, followed by the final event; the final event carries the result
\* when the pipeline produced an answer.
C24_StreamDeliversProgress ==
    (wview = "QueryStreamView" /\ wpc = "closed" /\ wk = "finished") =>
       /\ Len(responses) = Len(progress_log) + 1
       /\ \A i \in 1..Len(progress_log) : responses[i].kind = "progress"
       /\ werror = <<>> => responses[Len(responses)].kind = "result"

Finished(st) == st.kind = "dict" /\ st.status \in {"completed", "error"}

\* C25: a progress record whose request has reached status completed or
\* error is eventually removed from the progress store.
C25_FinishedRecordRemoved == Finished(storage) ~> storage.kind = "none"

\* C29: a poll that observes status completed also observes a result, and
\* a poll that observes status error also observes an error.
C29_PollSeesResultOrError ==
    wview = "QueryView" =>
       \A i \in 1..Len(responses) :
          responses[i].code = 200 =>
             /\ responses[i].kind = "completed" => responses[i].result # None
             /\ responses[i].kind = "error" => responses[i].error # <<>>

Selects(items, col) == \E i \in 1..Len(items) : items[i] = col

\* C26: when the table has lon and lat, the query returned for an input of
\* the form SELECT ... FROM selects the lon column and the lat column, and
\* an input that selects both is returned unchanged.
C26_CoordinatesSelected ==
    (fpc = "returned" /\ arg.has_lon /\ arg.has_lat /\ arg.q.matches) =>
       /\ Selects(ret.select, "lon")
       /\ Selects(ret.select, "lat")
       /\ (Selects(arg.q.select, "lon") /\ Selects(arg.q.select, "lat")) => ret = arg.q

\* C27: a run of generate_descriptions_batch asks the LLM for no feature
\* that the progress file it loaded already holds, be it with a description
\* or with the empty description of a failed generation.
C27_SavedFeaturesNotRequested ==
    fpc \in {"loop", "returned"} =>
       \A name \in ret.requested : ret.loaded[name] = Absent

\* C28: a record that supplies no total token count adds prompt_tokens +
\* completion_tokens to the total_tokens of the model and one to its
\* requests_count.
C28_TotalFromParts ==
    [][/\ \A model \in Models, p \in TokenCounts, c \in TokenCounts :
             RecordTokenUsage(model, p, c, FALSE, 0) =>
                /\ ret'[model].total_tokens = ret[model].total_tokens + p + c
                /\ ret'[model].requests_count = ret[model].requests_count + 1
       /\ \A model \in Models, usage \in Usages :
             (RecordFromResponse(model, usage) /\ usage.has_usage /\ ~usage.has_total) =>
                /\ ret'[model].total_tokens =
                      ret[model].total_tokens + usage.prompt_tokens + usage.completion_tokens
                /\ ret'[model].requests_count = ret[model].requests_count + 1]_vars

\* C30: a row has a line in the coordinates section of the answer exactly
\* when extract_coordinates returns a coordinate for it, and has_coordinates
\* is true exactly when the answer lists a coordinate.
C30_AnswerAndMapAgree ==
    fpc = "returned" =>
       /\ SeqToSet(ret.lines) = {ret.coordinates[j].row : j \in 1..Len(ret.coordinates)}
       /\ ret.has_coordinates <=> ret.lines # <<>>

====
